---- MODULE Spec2Model ----
(***************************************************************************)
(* A model of build-country-polygon.py: main() writes the areas table      *)
(* (write_country_areas) and then the borders table                        *)
(* (write_country_boundaries).                                             *)
(*                                                                         *)
(* Geometry.  The geometry engine (OGR / shapely) is modelled on a cell    *)
(* complex: the plane is a grid drawn in doubled coordinates, a face       *)
(* <<i, j>> is a unit cell (i and j odd), an edge (one of them odd) or a   *)
(* vertex (both even).  A geometry is the set of faces it covers and is    *)
(* topologically closed; boolean operations are the point-set operations   *)
(* followed by the closure the engine applies to its results.              *)
(*                                                                         *)
(* Territory identifiers are 1..4, standing for four three-letter codes in *)
(* lexicographic order, so that min/max/sorted are those of the strings.   *)
(***************************************************************************)
EXTENDS Integers, Sequences, FiniteSets, TLC

\* -------------------------------------------------------------------------
\* Bounds of the model
\* -------------------------------------------------------------------------

\* the configuration declares at most this many perspective recipes in all
MaxPersp == 2

\* configs.keys(): the configured territories
Territories == {1, 2, 3, 4}

\* -------------------------------------------------------------------------
\* Generic helpers
\* -------------------------------------------------------------------------

Range(s) == {s[i] : i \in DOMAIN s}

\* sorted(S) for a finite set of identifiers
SortedSeq(S) ==
    [n \in 1..Cardinality(S) |-> CHOOSE x \in S : Cardinality({y \in S : y < x}) = n - 1]

\* all orderings of a finite set: the orders in which an unordered Python
\* set may be iterated
Perms(S) ==
    {s \in [1..Cardinality(S) -> S] : \A i, j \in DOMAIN s : i # j => s[i] # s[j]}

\* -------------------------------------------------------------------------
\* The geometry engine
\* -------------------------------------------------------------------------

Odd(n) == n % 2 = 1

Dim(f) == (IF Odd(f[1]) THEN 1 ELSE 0) + (IF Odd(f[2]) THEN 1 ELSE 0)

\* the faces in the closure of one face
FaceClosure(f) ==
    {<<i, j>> \in ((f[1] - 1)..(f[1] + 1)) \X ((f[2] - 1)..(f[2] + 1)) :
        /\ (i # f[1] => Odd(f[1]))
        /\ (j # f[2] => Odd(f[2]))}

\* the faces whose closure contains f (f's open neighbourhood)
Star(f) ==
    {<<i, j>> \in ((f[1] - 1)..(f[1] + 1)) \X ((f[2] - 1)..(f[2] + 1)) :
        /\ (i # f[1] => ~Odd(f[1]))
        /\ (j # f[2] => ~Odd(f[2]))}

Closure(F) == UNION {FaceClosure(f) : f \in F}

EmptyGeom == {}

\* g1.Union(g2), g1.union(g2)
GeomUnion(g1, g2) == g1 \cup g2

\* g1.intersection(g2)
GeomIntersection(g1, g2) == g1 \cap g2

\* g1.Difference(g2), g1.difference(g2): what is left of g1 outside g2, closed
GeomDifference(g1, g2) == Closure(g1 \ g2)

\* topological interior and boundary of a polygon
Interior(g) == {f \in g : Star(f) \subseteq g}

Boundary(g) == g \ Interior(g)

\* g1.intersects(g2)
Intersects(g1, g2) == g1 \cap g2 # {}

\* g1.touches(g2): some common point, no common interior point
Touches(g1, g2) ==
    /\ g1 \cap g2 # {}
    /\ Interior(g1) \cap Interior(g2) = {}

\* g.length: the length of the lines of g plus the perimeter of its polygons
Length(g) == Cardinality({f \in g : Dim(f) = 1 /\ ~(Star(f) \subseteq g)})

\* -------------------------------------------------------------------------
\* Well-known text
\* -------------------------------------------------------------------------

\* the geometry type a non-empty geometry is written with
GeomType(g) ==
    LET dims == {Dim(f) : f \in g}
        pure(d) == \A f \in g : Dim(f) < d => \E h \in g : Dim(h) = d /\ f \in FaceClosure(h)
    IN  IF g = {} THEN "GEOMETRYCOLLECTION"
        ELSE IF 2 \in dims /\ pure(2) THEN "POLYGON"
        ELSE IF 2 \notin dims /\ 1 \in dims /\ pure(1) THEN "LINESTRING"
        ELSE IF dims = {0} THEN "POINT"
        ELSE "GEOMETRYCOLLECTION"

\* ExportToWkt / shapely.wkt.dumps(shape, rounding_precision=7): grid
\* coordinates are integers, which rounding to 7 decimals leaves alone
dump_wkt(shape) == [type |-> GeomType(shape), coords |-> shape]

\* GeoSeries.from_wkt / CreateGeometryFromWkt
from_wkt(wkt) == wkt.coords

EMPTY_LINE_WKT == [type |-> "LINESTRING", coords |-> {}]

\* -------------------------------------------------------------------------
\* The OpenStreetMap sources and the configuration
\* -------------------------------------------------------------------------

\* the cells in column c of the top and of the bottom row of the grid
Top(c) == <<2 * c - 1, 1>>
Bottom(c) == <<2 * c - 1, 3>>

\* the multipolygons layer of the OSM relation osm_id: relations 1..4 are
\* the four territories, relation 5 is a region that straddles the border of
\* territories 1 and 2, relation 6 is the eastern half of territory 1
OsmCells(osm_id) ==
    CASE osm_id = 1 -> {Top(1), Top(2)}
      [] osm_id = 2 -> {Bottom(1)}
      [] osm_id = 3 -> {Top(4)}
      [] osm_id = 4 -> {Bottom(4)}
      [] osm_id = 5 -> {Top(1), Bottom(1)}
      [] OTHER      -> {Top(2)}

\* the relations of the contested regions, which perspective recipes add or
\* subtract
Regions == {5, 6}

\* a recipe entry: (direction, el_type, osm_id)
Shape(direction, osm_id) == <<direction, "relation", osm_id>>

\* the base recipe of a territory
BaseRecipe(t) == <<Shape("plus", t)>>

\* one declared perspective recipe of a territory: perspective name, the entry
PerspEntries ==
    {<<p, Shape(d, o)>> : p \in Territories, d \in {"plus", "minus"}, o \in Regions}

\* the sets of at most k perspective recipes, one per perspective name
PerspSets(k) ==
    {ps \in {{}} \cup {Range(s) : s \in [1..k -> PerspEntries]} :
        \A x, y \in ps : x[1] = y[1] => x = y}

\* the configuration of one territory: its base recipe and the ordered mapping
\* perspective name -> recipe
ConfigOf(t, ps) ==
    [base |-> BaseRecipe(t),
     perspectives |->
        LET names == SortedSeq({e[1] : e \in ps})
        IN  [i \in DOMAIN names |->
                <<names[i], <<(CHOOSE e \in ps : e[1] = names[i])[2]>> >>]]

\* the entries a configuration may hold: (territory, its configuration)
ConfigItems == {<<t, ConfigOf(t, ps)>> : t \in Territories, ps \in PerspSets(MaxPersp)}

\* the configurations of territory t that declare at most k perspectives
TerritoryConfigs(t, k) ==
    {ci[2] : ci \in {x \in ConfigItems : x[1] = t /\ Len(x[2].perspectives) <= k}}

\* the value of the loop variable config outside the loop
NoConfig == [base |-> <<>>, perspectives |-> <<>>]

\* configs.items(): the territories in the order of the configuration
Items == SortedSeq(Territories)

\* -------------------------------------------------------------------------
\* State
\* -------------------------------------------------------------------------

VARIABLES
    config,      \* the entry of configs write_country_areas is at (configs is
                 \* an input: each territory's entry is drawn when the loop
                 \* reaches it; configs.keys() is Territories)
    pc,          \* where main() is: "start", "areas", "neighbors", "borders",
                 \* "done", or "raised" once an exception left main()
    error,       \* the exception that ended the run, "none" otherwise
    item,        \* index into Items of the territory write_country_areas is at
    sources,     \* osm ids with a file under data/sources
    downloads,   \* the osm ids downloaded, in order (the "Downloading" log)
    files,       \* which of the two output files exist in dirname
    areas,       \* the rows of country-areas.csv
    pairings,    \* the pairs of iso3_pairings not iterated yet
    borders      \* the rows of country-boundaries.csv

\* the state of the build (build-country-polygon.py)
buildVars == <<config, pc, error, item, sources, downloads, files, areas, pairings, borders>>

VARIABLES
    state_machine_arn,   \* whether STATE_MACHINE_ARN is set in the environment
    body,                \* the body of the webhook event
    executions,          \* the executions of the state machine: name and status
    hpc,                 \* where the webhook lambda_handler is
    running_executions,  \* the response of list_executions
    next_execution,      \* index of the loop over running_executions
    stopped_count,       \* stopped_count of stop_existing_executions_for_pr
    calls,               \* the calls made to Step Functions and GitHub, in order
    response             \* what lambda_handler returned

\* the state of the webhook handler (webhook/webhook.py)
hookVars == <<state_machine_arn, body, executions, hpc, running_executions,
              next_execution, stopped_count, calls, response>>

VARIABLES
    event,       \* the event of the processor handler
    ppc,         \* where the processor handler is: the step it is at,
                 \* "returned", or "raised" once an exception left the handler
    callbacks,   \* the send_task_success / send_task_failure calls, in order
    returned,    \* what the processor handler returned
    current_sha, \* what git rev-parse HEAD printed after the checkout, "" before
    script_ran   \* whether build-country-polygon.py was run in the clone

\* the state of the processor handler (processor.py)
procVars == <<event, ppc, callbacks, returned, current_sha, script_ran>>

VARIABLES
    processor_arn,       \* whether PROCESSOR_FUNCTION_ARN is set in the environment
    task_event,          \* the event of the task handler: a function from the
                         \* keys it has to their values
    tpc,                 \* where the task handler is
    processor_payload,   \* processor_payload of the task handler
    invocations,         \* the lambda_client.invoke calls, in order
    index_writes,        \* the write_index_html calls, in order, each with how it ended
    task_response        \* what the task handler returned

\* the state of the task handler (webhook/task.py)
taskVars == <<processor_arn, task_event, tpc, processor_payload, invocations,
              index_writes, task_response>>

VARIABLES
    github_secret_arn,   \* whether GITHUB_SECRET_ARN is set in the environment
    finish_event,        \* the event of the finish handler
    fpc,                 \* where the finish handler is
    requests,            \* the calls to Secrets Manager and GitHub, in order
    finish_response      \* what the finish handler returned

\* the state of the finish handler (webhook/finish.py)
finishVars == <<github_secret_arn, finish_event, fpc, requests, finish_response>>

vars == <<buildVars, hookVars, procVars, taskVars, finishVars>>

\* what each program leaves alone
nonBuildVars == <<hookVars, procVars, taskVars, finishVars>>
nonHookVars == <<buildVars, procVars, taskVars, finishVars>>
nonProcVars == <<buildVars, hookVars, taskVars, finishVars>>
nonTaskVars == <<buildVars, hookVars, procVars, finishVars>>
nonFinishVars == <<buildVars, hookVars, procVars, taskVars>>

AREAS_NAME == "country-areas.csv"
BOUNDARIES_NAME == "country-boundaries.csv"

\* -------------------------------------------------------------------------
\* load_shape, combine_shapes, combine_pair
\* -------------------------------------------------------------------------

\* the geometry load_shape returns when nothing fails: the union of the
\* multipolygons of the element
load_shape(el_type, osm_id) == Closure(OsmCells(osm_id))

\* a variant whose "minus" adds the shape as well
combine_pair_adding(geom1, shape2) ==
    LET geom2 == load_shape(shape2[2], shape2[3])
    IN  IF shape2[1] \in {"plus", "minus"}
        THEN [raised |-> FALSE, geom |-> GeomUnion(geom1, geom2)]
        ELSE [raised |-> TRUE, geom |-> EmptyGeom]

\* a variant that skips an entry of any other direction
combine_pair_skipping(geom1, shape2) ==
    LET geom2 == load_shape(shape2[2], shape2[3])
    IN  IF shape2[1] = "plus" THEN [raised |-> FALSE, geom |-> GeomUnion(geom1, geom2)]
        ELSE IF shape2[1] = "minus" THEN [raised |-> FALSE, geom |-> GeomDifference(geom1, geom2)]
        ELSE [raised |-> FALSE, geom |-> geom1]

\* the branches of combine_pair once geom2 is loaded; geom1 is never None
combine_pair(geom1, shape2) ==
    LET geom2 == load_shape(shape2[2], shape2[3])
    IN  IF shape2[1] = "plus" THEN [raised |-> FALSE, geom |-> GeomUnion(geom1, geom2)]
        ELSE IF shape2[1] = "minus" THEN [raised |-> FALSE, geom |-> GeomDifference(geom1, geom2)]
        ELSE [raised |-> TRUE, geom |-> EmptyGeom]

RECURSIVE reduce(_, _, _, _)
\* functools.reduce(combine_pair, shapes, geom) from entry i on.  budget is the
\* number of load_shape calls that succeed before one raises, -1 when none
\* raises.  calls: how many entries had load_shape called.
reduce(shapes, i, geom, budget) ==
    IF i > Len(shapes) THEN [status |-> "ok", geom |-> geom, calls |-> Len(shapes)]
    ELSE IF budget = 0 THEN [status |-> "SourceUnavailable", geom |-> geom, calls |-> i]
    ELSE LET r == combine_pair(geom, shapes[i])
         IN  IF r.raised THEN [status |-> "ValueError", geom |-> geom, calls |-> i]
             ELSE reduce(shapes, i + 1, r.geom, IF budget > 0 THEN budget - 1 ELSE budget)

\* a variant without the assertion on the first entry
fold_unchecked(shapes, budget) == reduce(shapes, 1, EmptyGeom, budget)

\* combine_shapes: the assertion on the first entry, then the fold from the
\* empty polygon
combine_shapes(shapes, budget) ==
    IF shapes[1][1] # "plus" THEN [status |-> "AssertionError", geom |-> EmptyGeom, calls |-> 0]
    ELSE reduce(shapes, 1, EmptyGeom, budget)

\* -------------------------------------------------------------------------
\* write_country_areas
\* -------------------------------------------------------------------------

\* Geometry.ExportToWkt of the OGR geometry written to the areas file
ExportToWkt(geom) == [type |-> GeomType(geom), coords |-> geom]

AreaRow(iso3, perspective, geom) ==
    [iso3 |-> iso3, perspective |-> perspective, geometry |-> ExportToWkt(geom)]

\* a variant that labels the base row with every configured territory
everyone_pov(cfg) == Territories

\* a variant that labels the base row with the names of the recipes instead
declared_pov(cfg) == {cfg.perspectives[i][1] : i \in DOMAIN cfg.perspectives}

\* "Neutral" point of view = anyone without a defined perspective
neutral_pov(cfg) ==
    Territories \ {cfg.perspectives[i][1] : i \in DOMAIN cfg.perspectives}

RECURSIVE perspective_rows(_, _, _, _, _)
\* the loop over config["perspectives"] from its j-th item on: the rows written
\* and how the loop ended.  loaded: the load_shape calls made before.
perspective_rows(iso3a, cfg, geom1, j, budget) ==
    IF j > Len(cfg.perspectives)
    THEN [status |-> "ok", rows |-> <<>>, loaded |-> <<>>]
    ELSE LET iso3b == cfg.perspectives[j][1]
             shapes == cfg.perspectives[j][2]
             r    == reduce(shapes, 1, geom1, budget)
             ids  == [k \in 1..r.calls |-> shapes[k][3]]
         IN  IF r.status # "ok"
             THEN [status |-> r.status, rows |-> <<>>, loaded |-> ids]
             ELSE LET rest == perspective_rows(iso3a, cfg, geom1, j + 1,
                                   IF budget > 0 THEN budget - r.calls ELSE budget)
                  IN  [status |-> rest.status,
                       rows   |-> <<AreaRow(iso3a, <<iso3b>>, r.geom)>> \o rest.rows,
                       loaded |-> ids \o rest.loaded]

\* one iteration of the loop over configs.items()
country_areas(iso3a, cfg, budget) ==
    LET r1  == combine_shapes(cfg.base, budget)
        ids == [k \in 1..r1.calls |-> cfg.base[k][3]]
    IN  IF r1.status # "ok"
        THEN [status |-> r1.status, rows |-> <<>>, loaded |-> ids]
        ELSE LET row1 == AreaRow(iso3a, SortedSeq(neutral_pov(cfg)), r1.geom)
                 rest == perspective_rows(iso3a, cfg, r1.geom, 1,
                              IF budget > 0 THEN budget - r1.calls ELSE budget)
             IN  [status |-> rest.status,
                  rows   |-> <<row1>> \o rest.rows,
                  loaded |-> ids \o rest.loaded]

\* the number of load_shape calls of one iteration when none raises: one per
\* entry of the base recipe and of every perspective recipe
NumLoads(cfg) ==
    Len(cfg.base) + Cardinality({<<j, k>> \in (DOMAIN cfg.perspectives) \X (1..Len(cfg.base) + 8) :
                                    k \in DOMAIN cfg.perspectives[j][2]})

\* a variant that downloads at every call
downloaded_every_call(ids, k, have) == SubSeq(ids, k, Len(ids))

RECURSIVE Downloaded(_, _, _)
\* the elements load_shape downloads for the calls ids[k..], given the local
\* files: those without a local file when they are called
Downloaded(ids, k, have) ==
    IF k > Len(ids) THEN <<>>
    ELSE IF ids[k] \in have THEN Downloaded(ids, k + 1, have)
    ELSE <<ids[k]>> \o Downloaded(ids, k + 1, have \cup {ids[k]})

\* no response yet
NoResponse == [statusCode |-> 0, body |-> "none"]

\* no webhook event is being handled
HookIdle ==
    /\ state_machine_arn = FALSE
    /\ body = [kind |-> "none"]
    /\ executions = <<>>
    /\ hpc = "idle"
    /\ running_executions = <<>>
    /\ next_execution = 1
    /\ stopped_count = 0
    /\ calls = <<>>
    /\ response = NoResponse

\* the build has not started
BuildIdle ==
    /\ config = NoConfig
    /\ pc = "start"
    /\ error = "none"
    /\ item = 1
    /\ sources = {}
    /\ downloads = <<>>
    /\ files = {}
    /\ areas = <<>>
    /\ pairings = {}
    /\ borders = <<>>

\* the processor handler is not invoked
ProcIdle ==
    /\ event = [taskToken |-> FALSE, head_sha |-> FALSE, base |-> "missing", clone_url |-> "null"]
    /\ ppc = "idle"
    /\ callbacks = <<>>
    /\ returned = [statusCode |-> 0, status |-> "none"]
    /\ current_sha = ""
    /\ script_ran = FALSE

\* an event without keys
NoEvent == [k \in {} |-> 0]

\* the task handler is not invoked
TaskIdle ==
    /\ processor_arn = FALSE
    /\ task_event = NoEvent
    /\ tpc = "idle"
    /\ processor_payload = NoEvent
    /\ invocations = <<>>
    /\ index_writes = <<>>
    /\ task_response = [statusCode |-> 0]

\* the finish handler is not invoked
FinishIdle ==
    /\ github_secret_arn = FALSE
    /\ finish_event = NoEvent
    /\ fpc = "idle"
    /\ requests = <<>>
    /\ finish_response = [statusCode |-> 0]

Init ==
    /\ BuildIdle
    /\ HookIdle
    /\ ProcIdle
    /\ TaskIdle
    /\ FinishIdle

\* write_country_areas opens the areas file and writes the header
OpenAreas ==
    /\ pc = "start"
    /\ pc' = "areas"
    /\ files' = files \cup {AREAS_NAME}
    /\ areas' = <<>>
    /\ UNCHANGED <<config, error, item, sources, downloads, pairings, borders>>
    /\ UNCHANGED nonBuildVars

\* the perspective recipes the rows written so far account for
NumPerspectives(rows) == Len(rows) - Cardinality({rows[i].iso3 : i \in DOMAIN rows})

\* one iteration of write_country_areas for the entry cfg of configs;
\* load_shape call number failAt raises (the download or the parsing fails),
\* none when failAt = 0
WriteCountryArea(cfg, failAt) ==
    /\ pc = "areas"
    /\ item <= Len(Items)
    /\ LET iso3a == Items[item]
           r == country_areas(iso3a, cfg, failAt - 1)
       IN  /\ (failAt > 0 => r.status = "SourceUnavailable")
           /\ config' = cfg
           /\ areas' = areas \o r.rows
           /\ downloads' = downloads \o Downloaded(r.loaded, 1, sources)
           /\ sources' = sources \cup Range(r.loaded)
           /\ IF r.status = "ok"
              THEN /\ item' = item + 1
                   /\ pc' = IF item = Len(Items) THEN "neighbors" ELSE "areas"
                   /\ error' = error
              ELSE /\ item' = item
                   /\ pc' = "raised"
                   /\ error' = r.status
    /\ UNCHANGED <<files, pairings, borders>>
    /\ UNCHANGED nonBuildVars

\* -------------------------------------------------------------------------
\* write_country_boundaries
\* -------------------------------------------------------------------------

\* geopandas.read_file + GeoSeries.from_wkt: the data frame of the areas file
read_gdf(rows) ==
    [i \in DOMAIN rows |->
        [iso3 |-> rows[i].iso3, perspective |-> rows[i].perspective,
         geometry |-> from_wkt(rows[i].geometry)]]

\* perspective.str.contains(iso3c) / iso3 in perspective, on the comma-joined
\* string of three-letter codes
str_contains(perspective, iso3c) == \E k \in DOMAIN perspective : perspective[k] = iso3c

\* Note each country's own view of itself: the dict comprehension keeps the
\* last row whose perspective names the row's own territory
self_views(gdf) ==
    LET own(t) == {i \in DOMAIN gdf : gdf[i].iso3 = t /\ str_contains(gdf[i].perspective, t)}
    IN  [t \in {gdf[i].iso3 : i \in {j \in DOMAIN gdf : own(gdf[j].iso3) # {}}} |->
            gdf[CHOOSE i \in own(t) : \A j \in own(t) : j <= i].geometry]

Min(x, y) == IF x <= y THEN x ELSE y
Max(x, y) == IF x <= y THEN y ELSE x

\* geopandas.sjoin(gdf, gdf, predicate="touches"): the pairs of rows that touch
sjoin_touches(gdf) ==
    {<<i, j>> \in (DOMAIN gdf) \X (DOMAIN gdf) : Touches(gdf[i].geometry, gdf[j].geometry)}

\* Calculate all neighbor pairings in all possible views
iso3_pairings(gdf) ==
    {<<Min(gdf[ij[1]].iso3, gdf[ij[2]].iso3), Max(gdf[ij[1]].iso3, gdf[ij[2]].iso3)>> :
        ij \in sjoin_touches(gdf)}

\* the rows of iso3 seen from perspective iso3c
rows_of(gdf, iso3, iso3c) ==
    {i \in DOMAIN gdf : gdf[i].iso3 = iso3 /\ str_contains(gdf[i].perspective, iso3c)}

\* Populate single perspectives to gdf polygon row ID pairs; the two
\* assertions hold when every perspective selects exactly one row of each
row_pairings_ok(gdf, iso3a, iso3b) ==
    \A iso3c \in Territories :
        /\ Cardinality(rows_of(gdf, iso3a, iso3c)) = 1
        /\ Cardinality(rows_of(gdf, iso3b, iso3c)) = 1

row_pairings(gdf, iso3a, iso3b) ==
    [iso3c \in Territories |->
        <<CHOOSE i \in rows_of(gdf, iso3a, iso3c) : TRUE,
          CHOOSE i \in rows_of(gdf, iso3b, iso3c) : TRUE>>]

RECURSIVE other_pairings_by_first(_, _, _, _)
\* a variant that groups by the row of the first claimant alone
other_pairings_by_first(pairs, others, k, acc) ==
    IF k > Len(others) THEN acc
    ELSE LET pairing == pairs[others[k]]
             at == {i \in DOMAIN acc : acc[i].pairing[1] = pairing[1]}
         IN  IF at # {}
             THEN other_pairings_by_first(pairs, others, k + 1,
                     [i \in DOMAIN acc |->
                         IF i \in at
                         THEN [pairing |-> acc[i].pairing, parties |-> acc[i].parties \cup {others[k]}]
                         ELSE acc[i]])
             ELSE other_pairings_by_first(pairs, others, k + 1,
                     Append(acc, [pairing |-> pairing, parties |-> {others[k]}]))

RECURSIVE other_pairings(_, _, _, _)
\* Populate gdf polygon row ID pairs to matching sets of perspectives: the
\* groups in the order the dictionary holds them, from the k-th other party on
other_pairings(pairs, others, k, acc) ==
    IF k > Len(others) THEN acc
    ELSE LET pairing == pairs[others[k]]
             at == {i \in DOMAIN acc : acc[i].pairing = pairing}
         IN  IF at # {}
             THEN other_pairings(pairs, others, k + 1,
                     [i \in DOMAIN acc |->
                         IF i \in at
                         THEN [pairing |-> pairing, parties |-> acc[i].parties \cup {others[k]}]
                         ELSE acc[i]])
             ELSE other_pairings(pairs, others, k + 1,
                     Append(acc, [pairing |-> pairing, parties |-> {others[k]}]))

\* the line of one pairing of rows
pairing_line(gdf, pairing) ==
    GeomIntersection(gdf[pairing[1]].geometry, gdf[pairing[2]].geometry)

BorderRow(iso3a, iso3b, perspectives, agreed_wkt, disputed_wkt) ==
    [iso3a |-> iso3a, iso3b |-> iso3b, perspectives |-> perspectives,
     agreed_geometry |-> agreed_wkt, disputed_geometry |-> disputed_wkt]

\* dump_wkt(line) if line.length else EMPTY_LINE_WKT
line_wkt(line) == IF Length(line) # 0 THEN dump_wkt(line) ELSE EMPTY_LINE_WKT

\* agreed_linestring: what the three lines have in common
agreed_line(line1, line2, linestring) ==
    GeomIntersection(GeomIntersection(line1, line2), linestring)

\* a variant that leaves the agreed line in
union_line(line1, line2, linestring) ==
    GeomUnion(GeomUnion(line1, line2), linestring)

\* disputed_linestring: the union of the three lines without the agreed line
disputed_line(line1, line2, linestring) ==
    GeomDifference(GeomUnion(GeomUnion(line1, line2), linestring),
                   agreed_line(line1, line2, linestring))

\* a variant that looks at the disputed line only
interested_in_disputed(views, other_iso3s, agreed, disputed) ==
    {o \in other_iso3s : Intersects(disputed, views[o])}

\* Identify 3rd parties with a potential interest in this border
interested_iso3s(views, other_iso3s, agreed, disputed) ==
    {o \in other_iso3s : Intersects(disputed, views[o]) \/ Intersects(agreed, views[o])}

\* a variant that also leaves the interested parties in the aggregated row
all_other_iso3s(other_iso3s, interested) == other_iso3s

\* disinterested_iso3s = set(other_iso3s) - interested_iso3s
disinterested_iso3s(other_iso3s, interested) == other_iso3s \ interested

\* a variant that subtracts nothing
subtract_nothing(line, other_polygon) == line

\* line.difference(other_polygon).difference(other_boundary)
subtract_view(line, other_polygon) ==
    GeomDifference(GeomDifference(line, other_polygon), Boundary(other_polygon))

RECURSIVE interested_rows(_, _, _, _, _, _, _)
\* Subtract this border from within interested parties' interiors: the loop
\* over interested_iso3s in the order `order`, from its k-th member on; the
\* two line variables are reassigned in the loop
interested_rows(views, iso3a, iso3b, order, k, agreed, disputed) ==
    IF k > Len(order) THEN [rows |-> <<>>, agreed |-> agreed, disputed |-> disputed]
    ELSE LET other_iso3 == order[k]
             agreed2    == subtract_view(agreed, views[other_iso3])
             disputed2  == subtract_view(disputed, views[other_iso3])
             row3 == BorderRow(iso3a, iso3b, <<other_iso3>>, line_wkt(agreed2), line_wkt(disputed2))
             rest == interested_rows(views, iso3a, iso3b, order, k + 1, agreed2, disputed2)
         IN  [rows |-> <<row3>> \o rest.rows, agreed |-> rest.agreed, disputed |-> rest.disputed]

\* the members of S in the order of the sequence perm
Ordered(S, perm) ==
    LET pos(x) == CHOOSE i \in DOMAIN perm : perm[i] = x
        at(n) == CHOOSE x \in S : Cardinality({y \in S : pos(y) < pos(x)}) = n - 1
    IN  [n \in 1..Cardinality(S) |-> at(n)]

\* one iteration of "Write alternative disputed geometries": the rows of one
\* group of third parties
group_rows(gdf, views, iso3a, iso3b, line1, line2, group, perm) ==
    LET other_iso3s == group.parties
        linestring  == pairing_line(gdf, group.pairing)
        agreed      == agreed_line(line1, line2, linestring)
        disputed    == disputed_line(line1, line2, linestring)
    IN  IF ~(other_iso3s \subseteq DOMAIN views) THEN [status |-> "KeyError", rows |-> <<>>]
        ELSE
        LET interested    == interested_iso3s(views, other_iso3s, agreed, disputed)
            disinterested == disinterested_iso3s(other_iso3s, interested)
            loop == interested_rows(views, iso3a, iso3b, Ordered(interested, perm), 1,
                                    agreed, disputed)
            row4 == BorderRow(iso3a, iso3b, SortedSeq(disinterested),
                              line_wkt(loop.agreed), line_wkt(loop.disputed))
        IN  [status |-> "ok",
             rows |-> loop.rows \o (IF disinterested # {} THEN <<row4>> ELSE <<>>)]

RECURSIVE groups_rows(_, _, _, _, _, _, _, _, _)
\* the loop over other_lines.items() from the k-th group on
groups_rows(gdf, views, iso3a, iso3b, line1, line2, groups, k, perm) ==
    IF k > Len(groups) THEN [status |-> "ok", rows |-> <<>>]
    ELSE LET g == group_rows(gdf, views, iso3a, iso3b, line1, line2, groups[k], perm)
         IN  IF g.status # "ok" THEN g
             ELSE LET rest == groups_rows(gdf, views, iso3a, iso3b, line1, line2,
                                          groups, k + 1, perm)
                  IN  [status |-> rest.status, rows |-> g.rows \o rest.rows]

\* a variant that takes the first claimant's pairing for both claimants
pop_first(pairs, iso3a, iso3) == pairs[iso3a]

\* row_pairings.pop(iso3): the pairing of a claimant's own perspective
pop_party(pairs, iso3a, iso3) == pairs[iso3]

\* the other parties of a pair, in the order of configs.keys()
other_parties_of(iso3a, iso3b) == SortedSeq(Territories \ {iso3a, iso3b})

\* the groups of third parties of a pair, in dictionary order
third_party_groups(gdf, iso3a, iso3b) ==
    other_pairings(row_pairings(gdf, iso3a, iso3b), other_parties_of(iso3a, iso3b), 1, <<>>)

\* one iteration of the loop over iso3_pairings: the rows it writes and how it
\* ends.  perm: the order in which the sets of this iteration are iterated.
pair_borders(gdf, iso3a, iso3b, perm) ==
    IF ~row_pairings_ok(gdf, iso3a, iso3b) THEN [status |-> "AssertionError", rows |-> <<>>]
    ELSE IF iso3a = iso3b THEN [status |-> "KeyError", rows |-> <<>>]
    ELSE
    LET pairs  == row_pairings(gdf, iso3a, iso3b)
        party1 == pop_party(pairs, iso3a, iso3a)
        party2 == pop_party(pairs, iso3a, iso3b)
        line1  == pairing_line(gdf, party1)
        line2  == pairing_line(gdf, party2)
        row1   == BorderRow(iso3a, iso3b, <<iso3a>>, dump_wkt(line1), EMPTY_LINE_WKT)
        row2   == BorderRow(iso3a, iso3b, <<iso3b>>, dump_wkt(line2), EMPTY_LINE_WKT)
        rest   == groups_rows(gdf, self_views(gdf), iso3a, iso3b, line1, line2,
                              third_party_groups(gdf, iso3a, iso3b), 1, perm)
    IN  [status |-> rest.status, rows |-> <<row1, row2>> \o rest.rows]

\* write_country_boundaries up to the loop: read the areas, find the neighbor
\* pairings, open the borders file and write its header
FindNeighbors ==
    /\ pc = "neighbors"
    /\ pairings' = iso3_pairings(read_gdf(areas))
    /\ files' = files \cup {BOUNDARIES_NAME}
    /\ borders' = <<>>
    /\ pc' = "borders"
    /\ config' = NoConfig
    /\ UNCHANGED <<error, item, sources, downloads, areas>>
    /\ UNCHANGED nonBuildVars

\* one iteration of the loop over iso3_pairings, which is a set: any pair not
\* yet iterated may come next, and the sets inside are iterated in any order
WritePairBorders(pair, perm) ==
    /\ pc = "borders"
    /\ pair \in pairings
    /\ LET r == pair_borders(read_gdf(areas), pair[1], pair[2], perm)
       IN  /\ borders' = borders \o r.rows
           /\ IF r.status = "ok"
              THEN /\ pairings' = pairings \ {pair}
                   /\ UNCHANGED <<pc, error>>
              ELSE /\ pairings' = pairings
                   /\ pc' = "raised"
                   /\ error' = r.status
    /\ UNCHANGED <<config, item, sources, downloads, files, areas>>
    /\ UNCHANGED nonBuildVars

\* the loop is over: main() returns
Finish ==
    /\ pc = "borders"
    /\ pairings = {}
    /\ pc' = "done"
    /\ UNCHANGED <<config, error, item, sources, downloads, files, areas, pairings, borders>>
    /\ UNCHANGED nonBuildVars

Next ==
    \/ OpenAreas
    \/ /\ pc = "areas"
       /\ \E cfg \in TerritoryConfigs(Items[item], MaxPersp - NumPerspectives(areas)) :
            \E failAt \in 0..NumLoads(cfg) : WriteCountryArea(cfg, failAt)
    \/ FindNeighbors
    \/ \E pair \in pairings : \E perm \in Perms(Territories \ {pair[1], pair[2]}) :
            WritePairBorders(pair, perm)
    \/ Finish

Spec == Init /\ [][Next]_vars

\* -------------------------------------------------------------------------
\* write_country_areas on arbitrary recipes
\* -------------------------------------------------------------------------

MaxRecipeLen == 2
MaxRecipeItems == 2

\* the operators a recipe entry may carry; "times" stands for any string
\* other than "plus" and "minus"
RecipeDirections == {"plus", "minus", "times"}

\* the recipes of 1..MaxRecipeLen entries over the elements ids
Recipes(ids) ==
    UNION {[1..n -> {Shape(d, o) : d \in RecipeDirections, o \in ids}] : n \in 1..MaxRecipeLen}

\* entries of configs with any base recipe over relations 1 and 5 and at most
\* one perspective recipe, named for territory 1, over relation 6
RecipeConfigs ==
    {[base |-> b, perspectives |-> ps] :
        b \in Recipes({1, 5}),
        ps \in {<<>>} \cup {<<<<1, r>>>> : r \in Recipes({6})}}

\* one iteration of write_country_areas on such an entry
WriteRecipeArea ==
    /\ pc = "areas"
    /\ item <= MaxRecipeItems
    /\ \E cfg \in RecipeConfigs : \E failAt \in 0..NumLoads(cfg) : WriteCountryArea(cfg, failAt)

NextRecipes ==
    \/ OpenAreas
    \/ WriteRecipeArea

SpecRecipes == Init /\ [][NextRecipes]_vars

\* -------------------------------------------------------------------------
\* webhook/webhook.py: lambda_handler and stop_existing_executions_for_pr
\* -------------------------------------------------------------------------

MaxExecutions == 2

\* the pull request numbers of the payloads and of the executions there are
PRNumbers == {1, 12}

DigitChars == <<"0", "1", "2", "3", "4", "5", "6", "7", "8", "9">>

RECURSIVE str(_)
\* the decimal digits of a number, as str.format writes it
str(n) ==
    IF n < 10 THEN <<DigitChars[n + 1]>>
    ELSE str(n \div 10) \o <<DigitChars[(n % 10) + 1]>>

\* the default of payload.get('number', 'unknown')
unknown == <<"u", "n", "k", "n", "o", "w", "n">>

\* EXECUTION_NAME_PAT.format(pr_number, suffix), "PR{0}-{1}"
EXECUTION_NAME_PAT(pr_number, suffix) == <<"P", "R">> \o pr_number \o <<"-">> \o suffix

\* a variant that ignores the last character of the prefix
startswith_stem(name, prefix) ==
    Len(prefix) - 1 <= Len(name) /\ SubSeq(name, 1, Len(prefix) - 1) = SubSeq(prefix, 1, Len(prefix) - 1)

\* str.startswith
startswith(name, prefix) ==
    Len(prefix) <= Len(name) /\ SubSeq(name, 1, Len(prefix)) = prefix

\* context.aws_request_id[:8] of this invocation, and those of earlier ones
aws_request_id == <<"b">>
EarlierRequestIds == {<<"a">>, <<"c">>}

\* the bodies an event may carry: text that is not JSON, JSON that is not an
\* object (an array, a number, null), an object without "number", and an
\* object with a pull request number
Bodies ==
    {[kind |-> "invalid", has_number |-> FALSE, number |-> 0],
     [kind |-> "nonobject", has_number |-> FALSE, number |-> 0],
     [kind |-> "object", has_number |-> FALSE, number |-> 0]}
    \cup {[kind |-> "object", has_number |-> TRUE, number |-> n] : n \in PRNumbers}

\* the executions the state machine may hold when the event arrives
ExecutionRecords ==
    {[name |-> EXECUTION_NAME_PAT(str(n), id), status |-> st] :
        n \in PRNumbers, id \in EarlierRequestIds, st \in {"RUNNING", "SUCCEEDED"}}

ExecutionLists ==
    {es \in UNION {[1..n -> ExecutionRecords] : n \in 0..MaxExecutions} :
        \A i, j \in DOMAIN es : es[i].name = es[j].name => i = j}

\* payload.get('number', 'unknown'), as format writes it
pr_number_of(payload) == IF payload.has_number THEN str(payload.number) ELSE unknown

\* a call to Step Functions or to the GitHub statuses API, and whether it
\* succeeded
Call(api, name, ok) == [api |-> api, name |-> name, ok |-> ok]

Response(statusCode, message) == [statusCode |-> statusCode, body |-> message]

\* list_executions(statusFilter='RUNNING'): the first page of the response
list_executions(execs) == SelectSeq(execs, LAMBDA e : e.status = "RUNNING")

\* stop_execution on the execution named name
stop_execution(execs, name) ==
    [i \in DOMAIN execs |->
        IF execs[i].name = name THEN [name |-> name, status |-> "ABORTED"] ELSE execs[i]]

\* a variant that reads any body as an empty object
json_loads_lenient(b) ==
    [raised |-> FALSE, payload |-> [kind |-> "object", has_number |-> FALSE, number |-> 0]]

\* json.loads(body): raises JSONDecodeError on text that is not JSON
json_loads(b) == [raised |-> b.kind = "invalid", payload |-> b]

InitWebhook ==
    /\ BuildIdle
    /\ ProcIdle
    /\ TaskIdle
    /\ FinishIdle
    /\ state_machine_arn \in BOOLEAN
    /\ body \in Bodies
    /\ executions \in ExecutionLists
    /\ hpc = "invoked"
    /\ running_executions = <<>>
    /\ next_execution = 1
    /\ stopped_count = 0
    /\ calls = <<>>
    /\ response = NoResponse

\* lambda_handler up to the call of stop_existing_executions_for_pr: the
\* environment, the body, the pull request number
HookEnter ==
    /\ hpc = "invoked"
    /\ IF ~state_machine_arn
       THEN /\ response' = Response(500, "STATE_MACHINE_ARN not configured")
            /\ hpc' = "returned"
       ELSE IF json_loads(body).raised
       THEN /\ response' = Response(400, "Invalid JSON in request body")
            /\ hpc' = "returned"
       ELSE IF json_loads(body).payload.kind # "object"
       THEN \* payload.get raises AttributeError inside the try block
            /\ response' = Response(500, "Failed to start execution")
            /\ hpc' = "returned"
       ELSE /\ response' = response
            /\ hpc' = IF pr_number_of(json_loads(body).payload) # unknown THEN "list" ELSE "start"
    /\ UNCHANGED <<state_machine_arn, body, executions, running_executions,
                   next_execution, stopped_count, calls>>
    /\ UNCHANGED nonHookVars

\* stop_existing_executions_for_pr: list_executions; when it raises the
\* function returns 0
HookList(ok) ==
    /\ hpc = "list"
    /\ calls' = Append(calls, Call("list_executions", <<>>, ok))
    /\ running_executions' = IF ok THEN list_executions(executions) ELSE <<>>
    /\ next_execution' = 1
    /\ stopped_count' = 0
    /\ hpc' = IF ok /\ list_executions(executions) # <<>> THEN "stop" ELSE "start"
    /\ UNCHANGED <<state_machine_arn, body, executions, response>>
    /\ UNCHANGED nonHookVars

\* one iteration of the loop over running_executions
HookStop(ok) ==
    /\ hpc = "stop"
    /\ next_execution <= Len(running_executions)
    /\ LET execution_name == running_executions[next_execution].name
           execution_prefix == EXECUTION_NAME_PAT(pr_number_of(body), <<>>)
       IN  IF startswith(execution_name, execution_prefix)
           THEN /\ calls' = Append(calls, Call("stop_execution", execution_name, ok))
                /\ executions' = IF ok THEN stop_execution(executions, execution_name)
                                 ELSE executions
                /\ stopped_count' = IF ok THEN stopped_count + 1 ELSE stopped_count
           ELSE /\ ok
                /\ UNCHANGED <<calls, executions, stopped_count>>
    /\ next_execution' = next_execution + 1
    /\ hpc' = IF next_execution = Len(running_executions) THEN "start" ELSE "stop"
    /\ UNCHANGED <<state_machine_arn, body, running_executions, response>>
    /\ UNCHANGED nonHookVars

\* a variant that goes on to do_status whether or not start_execution raised
HookStartThenStatus(ok) ==
    /\ hpc = "start"
    /\ calls' = Append(calls, Call("start_execution",
                                   EXECUTION_NAME_PAT(pr_number_of(body), aws_request_id), ok))
    /\ hpc' = "status"
    /\ UNCHANGED <<state_machine_arn, body, executions, running_executions, next_execution,
                   stopped_count, response>>
    /\ UNCHANGED nonHookVars

\* start_execution; when it raises the handler returns 500
HookStart(ok) ==
    /\ hpc = "start"
    /\ LET execution_name == EXECUTION_NAME_PAT(pr_number_of(body), aws_request_id)
       IN  /\ calls' = Append(calls, Call("start_execution", execution_name, ok))
           /\ executions' = IF ok
                            THEN Append(executions, [name |-> execution_name, status |-> "RUNNING"])
                            ELSE executions
    /\ IF ok
       THEN /\ hpc' = "status"
            /\ response' = response
       ELSE /\ hpc' = "returned"
            /\ response' = Response(500, "Failed to start execution")
    /\ UNCHANGED <<state_machine_arn, body, running_executions, next_execution, stopped_count>>
    /\ UNCHANGED nonHookVars

\* how do_status may end: it returns before posting (a setting or a field is
\* missing, the token cannot be read), it posts the pending status, the post is
\* refused, or a call to S3 raises before the post
StatusOutcomes == {"skipped", "posted", "refused", "raised"}

\* do_status and the return of lambda_handler
HookStatus(outcome) ==
    /\ hpc = "status"
    /\ calls' = IF outcome \in {"posted", "refused"}
                THEN Append(calls, Call("statuses", <<>>, outcome = "posted"))
                ELSE calls
    /\ response' = IF outcome = "raised"
                   THEN Response(500, "Failed to start execution")
                   ELSE Response(200, "State machine execution started")
    /\ hpc' = "returned"
    /\ UNCHANGED <<state_machine_arn, body, executions, running_executions,
                   next_execution, stopped_count>>
    /\ UNCHANGED nonHookVars

NextWebhook ==
    \/ HookEnter
    \/ \E ok \in BOOLEAN : HookList(ok)
    \/ \E ok \in BOOLEAN : HookStop(ok)
    \/ \E ok \in BOOLEAN : HookStart(ok)
    \/ \E outcome \in StatusOutcomes : HookStatus(outcome)

SpecWebhook == InitWebhook /\ [][NextWebhook]_vars

\* -------------------------------------------------------------------------
\* processor.py: handler
\* -------------------------------------------------------------------------

\* the events of the handler: whether there is a taskToken and a
\* pull_request.head.sha, what pull_request.base is (an object with a sha, an
\* object without or no key at all, or null), and what repository.clone_url is
\* (a string, or null)
Events ==
    [taskToken : BOOLEAN, head_sha : BOOLEAN, base : {"sha", "missing", "null"},
     clone_url : {"string", "null"}]

InitProcessor ==
    /\ BuildIdle
    /\ HookIdle
    /\ TaskIdle
    /\ FinishIdle
    /\ event \in Events
    /\ ppc = "token"
    /\ callbacks = <<>>
    /\ returned = [statusCode |-> 0, status |-> "none"]
    /\ current_sha = ""
    /\ script_ran = FALSE

\* the step is done without an exception: on to the next one
Proceed(step) ==
    /\ ppc' = step
    /\ UNCHANGED <<event, callbacks, returned>>

\* an except block of the handler: send_task_failure when there is a task
\* token, then return the error response
Fail(statusCode, error_name) ==
    /\ callbacks' = IF event.taskToken
                    THEN Append(callbacks, [api |-> "send_task_failure", error |-> error_name])
                    ELSE callbacks
    /\ returned' = [statusCode |-> statusCode, status |-> "error"]
    /\ ppc' = "returned"
    /\ UNCHANGED event

\* an exception that no except block of the step names leaves the handler
Escape ==
    /\ ppc' = "raised"
    /\ UNCHANGED <<event, callbacks, returned>>

\* Fetch GitHub token from Secrets Manager; except Exception
ProcToken(outcome) ==
    /\ ppc = "token"
    /\ outcome \in {"ok", "Exception"}
    /\ IF outcome = "ok" THEN Proceed("parse") ELSE Fail(500, "GitHubTokenError")
    /\ UNCHANGED <<current_sha, script_ran>>
    /\ UNCHANGED nonProcVars

\* Extract PR information; ValueError when there is no head sha
ProcParse ==
    /\ ppc = "parse"
    /\ IF event.head_sha THEN Proceed("clone") ELSE Fail(400, "PRParseError")
    /\ UNCHANGED <<current_sha, script_ran>>
    /\ UNCHANGED nonProcVars

\* Clone repository; except CalledProcessError only: urlunparse raises
\* TypeError when clone_url is not a string
ProcClone(outcome) ==
    /\ ppc = "clone"
    /\ outcome \in {"ok", "CalledProcessError"}
    /\ IF event.clone_url = "null" THEN Escape
       ELSE IF outcome = "ok" THEN Proceed("checkout")
       ELSE Fail(500, "GitCloneError")
    /\ UNCHANGED <<current_sha, script_ran>>
    /\ UNCHANGED nonProcVars

\* pull_request.head.sha of an event that has one, and the commits HEAD may
\* be at after the checkout
pr_sha == "abc123"
Shas == {"abc123", "0f0f0f"}

\* a verification that accepts any HEAD
unverified(head) == TRUE

\* Verify checkout: current_sha != pr_sha raises ValueError
verified(head) == head = pr_sha

\* Checkout PR HEAD: fetch, checkout, then rev-parse HEAD, which prints head;
\* except CalledProcessError, except ValueError
ProcCheckout(outcome, head) ==
    /\ ppc = "checkout"
    /\ outcome \in {"ok", "CalledProcessError"}
    /\ head \in Shas
    /\ IF outcome = "CalledProcessError"
       THEN Fail(500, "GitCheckoutError") /\ UNCHANGED current_sha
       ELSE /\ current_sha' = head
            /\ IF verified(head) THEN Proceed("diff")
               ELSE Fail(500, "CheckoutVerificationError")
    /\ UNCHANGED script_ran
    /\ UNCHANGED nonProcVars

\* Find changed config files; except CalledProcessError, except ValueError:
\* None.get raises AttributeError when pull_request.base is null
ProcDiff(outcome) ==
    /\ ppc = "diff"
    /\ outcome \in {"ok", "CalledProcessError"}
    /\ IF event.base = "null" THEN Escape
       ELSE IF event.base = "missing" THEN Fail(500, "GitDiffValidationError")
       ELSE IF outcome = "ok" THEN Proceed("run")
       ELSE Fail(500, "GitDiffError")
    /\ UNCHANGED <<current_sha, script_ran>>
    /\ UNCHANGED nonProcVars

\* Run the script, unless no config file changed; except CalledProcessError,
\* except ValueError: subprocess.run raises OSError when the script cannot be
\* executed
ProcRun(outcome) ==
    /\ ppc = "run"
    /\ outcome \in {"NoChanges", "ok", "CalledProcessError", "ValueError", "OSError"}
    /\ script_ran' = (outcome \in {"ok", "CalledProcessError"})
    /\ UNCHANGED current_sha
    /\ IF outcome \in {"NoChanges", "ok"} THEN Proceed("upload")
       ELSE IF outcome = "CalledProcessError" THEN Fail(500, "ScriptExecutionError")
       ELSE IF outcome = "ValueError" THEN Fail(500, "ScriptValidationError")
       ELSE Escape
    /\ UNCHANGED nonProcVars

\* upload the two tables; except Exception
ProcUpload(outcome) ==
    /\ ppc = "upload"
    /\ outcome \in {"ok", "Exception"}
    /\ IF outcome = "ok" THEN Proceed("success") ELSE Fail(500, "ScriptValidationError")
    /\ UNCHANGED <<current_sha, script_ran>>
    /\ UNCHANGED nonProcVars

\* Success!
ProcSuccess ==
    /\ ppc = "success"
    /\ callbacks' = IF event.taskToken
                    THEN Append(callbacks, [api |-> "send_task_success", error |-> "none"])
                    ELSE callbacks
    /\ returned' = [statusCode |-> 200, status |-> "success"]
    /\ ppc' = "returned"
    /\ UNCHANGED event
    /\ UNCHANGED <<current_sha, script_ran>>
    /\ UNCHANGED nonProcVars

ProcOutcomes == {"ok", "NoChanges", "Exception", "CalledProcessError", "ValueError", "OSError"}

NextProcessor ==
    \/ \E outcome \in ProcOutcomes : ProcToken(outcome)
    \/ ProcParse
    \/ \E outcome \in ProcOutcomes : ProcClone(outcome)
    \/ \E outcome \in ProcOutcomes : \E head \in Shas : ProcCheckout(outcome, head)
    \/ \E outcome \in ProcOutcomes : ProcDiff(outcome)
    \/ \E outcome \in ProcOutcomes : ProcRun(outcome)
    \/ \E outcome \in ProcOutcomes : ProcUpload(outcome)
    \/ ProcSuccess

SpecProcessor == InitProcessor /\ [][NextProcessor]_vars

\* -------------------------------------------------------------------------
\* The task handler (webhook/task.py)
\* -------------------------------------------------------------------------

\* the keys an event of the task handler may have; "number" stands for the
\* fields of the pull request event the state machine passes through
TaskKeys == {"taskToken", "taskSequence", "destination", "number", "ignoreLocals"}

TaskSequences == {"first", "second", "third"}

\* the event with the keys ks and the given taskSequence
TaskEvent(ks, task_sequence) ==
    [k \in ks |->
        CASE k = "taskToken" -> "AQCEAAAAKgAAAAMAAAAA"
          [] k = "taskSequence" -> task_sequence
          [] k = "destination" -> "s3://bucket/pr-12/"
          [] k = "number" -> "12"
          [] k = "ignoreLocals" -> FALSE]

TaskEvents == {TaskEvent(ks, ts) : ks \in SUBSET TaskKeys, ts \in TaskSequences}

\* dict.get(key): None when the key is absent
None == "None"
get(ev, key) == IF key \in DOMAIN ev THEN ev[key] ELSE None

\* dict.pop(key, None) on a copy
pop(ev, key) == [k \in DOMAIN ev \ {key} |-> ev[k]]

\* d[key] = value on a copy
set_item(ev, key, value) ==
    [k \in DOMAIN ev \cup {key} |-> IF k = key THEN value ELSE ev[k]]

\* a payload that keeps taskSequence
payload_with_sequence(ev) ==
    IF get(ev, "taskSequence") = "second" THEN set_item(ev, "ignoreLocals", TRUE) ELSE ev

\* Prepare payload for processor: event.copy(), pop taskSequence, and
\* ignoreLocals = True for the second task
payload_of(ev) ==
    IF get(ev, "taskSequence") = "second"
    THEN set_item(pop(ev, "taskSequence"), "ignoreLocals", TRUE)
    ELSE pop(ev, "taskSequence")

\* index.html written whatever the task is
first_or_later(ev) == get(ev, "destination") # None

\* Write to index.html if this is the first task
first_with_destination(ev) ==
    get(ev, "taskSequence") = "first" /\ get(ev, "destination") # None

TaskResponse(statusCode) == [statusCode |-> statusCode]

InitTask ==
    /\ BuildIdle
    /\ HookIdle
    /\ ProcIdle
    /\ FinishIdle
    /\ processor_arn \in BOOLEAN
    /\ task_event \in TaskEvents
    /\ tpc = "invoked"
    /\ processor_payload = NoEvent
    /\ invocations = <<>>
    /\ index_writes = <<>>
    /\ task_response = TaskResponse(0)

\* the handler returns
TaskReturn(statusCode) ==
    /\ task_response' = TaskResponse(statusCode)
    /\ tpc' = "returned"

\* entry without the taskToken check
TaskEnterUnchecked ==
    /\ tpc = "invoked"
    /\ IF ~processor_arn
       THEN TaskReturn(500) /\ UNCHANGED processor_payload
       ELSE /\ processor_payload' = payload_of(task_event)
            /\ tpc' = "invoke"
            /\ UNCHANGED task_response
    /\ UNCHANGED <<processor_arn, task_event, invocations, index_writes>>
    /\ UNCHANGED nonTaskVars

\* lambda_handler up to the invocation: PROCESSOR_FUNCTION_ARN, taskToken,
\* then the payload
TaskEnter ==
    /\ tpc = "invoked"
    /\ IF ~processor_arn
       THEN TaskReturn(500) /\ UNCHANGED processor_payload
       ELSE IF get(task_event, "taskToken") = None
       THEN TaskReturn(400) /\ UNCHANGED processor_payload
       ELSE /\ processor_payload' = payload_of(task_event)
            /\ tpc' = "invoke"
            /\ UNCHANGED task_response
    /\ UNCHANGED <<processor_arn, task_event, invocations, index_writes>>
    /\ UNCHANGED nonTaskVars

\* lambda_client.invoke, asynchronously; except Exception
TaskInvoke(outcome) ==
    /\ tpc = "invoke"
    /\ outcome \in {"ok", "Exception"}
    /\ invocations' = Append(invocations,
            [FunctionName |-> "PROCESSOR_FUNCTION_ARN", InvocationType |-> "Event",
             Payload |-> processor_payload, outcome |-> outcome])
    /\ IF outcome = "Exception" THEN TaskReturn(500)
       ELSE IF first_with_destination(task_event)
       THEN tpc' = "write_index_html" /\ UNCHANGED task_response
       ELSE TaskReturn(200)
    /\ UNCHANGED <<processor_arn, task_event, processor_payload, index_writes>>
    /\ UNCHANGED nonTaskVars

\* write_index_html, which swallows every exception, then the return
TaskWriteIndexHtml(outcome) ==
    /\ tpc = "write_index_html"
    /\ outcome \in {"ok", "Exception"}
    /\ index_writes' = Append(index_writes,
            [destination |-> get(task_event, "destination"), key |-> "index.html",
             message |-> "Settling in for a long wait", outcome |-> outcome])
    /\ TaskReturn(200)
    /\ UNCHANGED <<processor_arn, task_event, processor_payload, invocations>>
    /\ UNCHANGED nonTaskVars

NextTask ==
    \/ TaskEnter
    \/ \E outcome \in {"ok", "Exception"} : TaskInvoke(outcome)
    \/ \E outcome \in {"ok", "Exception"} : TaskWriteIndexHtml(outcome)

SpecTask == InitTask /\ [][NextTask]_vars

\* -------------------------------------------------------------------------
\* The finish handler (webhook/finish.py)
\* -------------------------------------------------------------------------

\* the events of the handler: its status ("missing" when there is no key),
\* whether it has an executionArn, what repository is (no key, null, an object
\* without statuses_url, an object with it) and what pull_request is (no key,
\* null, an object without head.sha, an object with it)
FinishEvents ==
    [status : {"missing", "success", "failure", "aborted"},
     executionArn : BOOLEAN,
     repository : {"missing", "null", "no_url", "url"},
     pull_request : {"missing", "null", "no_sha", "sha"}]

\* repository.statuses_url as GitHub sends it, and pull_request.head.sha
STATUSES_URL == <<"https://api.github.com/repos/o/r/statuses/", "{sha}">>
HEAD_SHA == "abc123"

\* str.replace(old, new)
replace(s, old, new) == [i \in DOMAIN s |-> IF s[i] = old THEN new ELSE s[i]]

\* a status that defaults to success
status_or_success(ev) == IF ev.status = "missing" THEN "success" ELSE ev.status

\* event.get('status', 'failure')
status_state(ev) == IF ev.status = "missing" THEN "failure" ELSE ev.status

\* Set description based on status
description(state) ==
    IF state = "success" THEN "Boundary issues check passed"
    ELSE "Boundary issues check failed"

\* Construct AWS console URL for the execution
target_url(ev) == IF ev.executionArn THEN "console" ELSE None

\* Create GitHub status
status_payload(ev) ==
    [state |-> status_state(ev), description |-> description(status_state(ev)),
     context |-> "boundary-issues-processor", target_url |-> target_url(ev)]

FinishResponse(statusCode) == [statusCode |-> statusCode]

InitFinish ==
    /\ BuildIdle
    /\ HookIdle
    /\ ProcIdle
    /\ TaskIdle
    /\ github_secret_arn \in BOOLEAN
    /\ finish_event \in FinishEvents
    /\ fpc = "invoked"
    /\ requests = <<>>
    /\ finish_response = FinishResponse(0)

\* the handler returns
FinishReturn(statusCode) ==
    /\ finish_response' = FinishResponse(statusCode)
    /\ fpc' = "returned"

\* lambda_handler up to the token: GITHUB_SECRET_ARN, the fields of the event
\* (None.get raises AttributeError when repository or pull_request is null),
\* statuses_url, head_sha
FinishEnter ==
    /\ fpc = "invoked"
    /\ IF ~github_secret_arn THEN FinishReturn(500)
       ELSE IF finish_event.repository = "null" \/ finish_event.pull_request = "null"
       THEN fpc' = "raised" /\ UNCHANGED finish_response
       ELSE IF finish_event.repository # "url" THEN FinishReturn(400)
       ELSE IF finish_event.pull_request # "sha" THEN FinishReturn(400)
       ELSE fpc' = "secret" /\ UNCHANGED finish_response
    /\ UNCHANGED <<github_secret_arn, finish_event, requests>>
    /\ UNCHANGED nonFinishVars

\* Fetch GitHub token from Secrets Manager; except Exception
FinishSecret(outcome) ==
    /\ fpc = "secret"
    /\ outcome \in {"ok", "Exception"}
    /\ requests' = Append(requests, [api |-> "get_secret_value", outcome |-> outcome])
    /\ IF outcome = "ok" THEN fpc' = "post" /\ UNCHANGED finish_response
       ELSE FinishReturn(500)
    /\ UNCHANGED <<github_secret_arn, finish_event>>
    /\ UNCHANGED nonFinishVars

\* the POST to the statuses url of the head sha; except HTTPError, except
\* Exception
FinishPost(outcome) ==
    /\ fpc = "post"
    /\ outcome \in {"ok", "HTTPError", "Exception"}
    /\ requests' = Append(requests,
            [api |-> "POST", outcome |-> outcome,
             url |-> replace(STATUSES_URL, "{sha}", HEAD_SHA),
             payload |-> status_payload(finish_event)])
    /\ IF outcome = "ok" THEN FinishReturn(200) ELSE FinishReturn(500)
    /\ UNCHANGED <<github_secret_arn, finish_event>>
    /\ UNCHANGED nonFinishVars

NextFinish ==
    \/ FinishEnter
    \/ \E outcome \in {"ok", "Exception"} : FinishSecret(outcome)
    \/ \E outcome \in {"ok", "HTTPError", "Exception"} : FinishPost(outcome)

SpecFinish == InitFinish /\ [][NextFinish]_vars

\* -------------------------------------------------------------------------
\* Vocabulary of the properties, read off the two tables
\* -------------------------------------------------------------------------

\* the area table as the border stage reads it
Gdf == read_gdf(areas)

\* the pairs whose iteration of the loop over iso3_pairings has completed
ProcessedPairs ==
    IF BOUNDARIES_NAME \in files THEN iso3_pairings(Gdf) \ pairings ELSE {}

\* the border rows of a pair
PairRows(pair) ==
    {i \in DOMAIN borders : borders[i].iso3a = pair[1] /\ borders[i].iso3b = pair[2]}

\* the perspective set of a border row
PerspectiveSet(row) == Range(row.perspectives)

\* the polygon of territory t as perspective c sees it
AreaOf(t, c) ==
    Gdf[CHOOSE i \in DOMAIN Gdf : Gdf[i].iso3 = t /\ c \in Range(Gdf[i].perspective)].geometry

\* the area record of territory t that perspective c selects
RecordOf(t, c) ==
    CHOOSE i \in DOMAIN Gdf : Gdf[i].iso3 = t /\ c \in Range(Gdf[i].perspective)

\* the border of a and b as perspective c sees it
LineOf(a, b, c) == AreaOf(a, c) \cap AreaOf(b, c)

\* a territory's own claimed extent
SelfView(o) == AreaOf(o, o)

\* the third parties of a pair
ThirdParties(pair) == Territories \ {pair[1], pair[2]}

\* the unfiltered lines of third party c for the pair: what the two claimants
\* and c agree on, and the rest of what any of the three draws
Agreed(pair, c) ==
    LineOf(pair[1], pair[2], pair[1]) \cap LineOf(pair[1], pair[2], pair[2])
        \cap LineOf(pair[1], pair[2], c)

Disputed(pair, c) ==
    Closure((LineOf(pair[1], pair[2], pair[1]) \cup LineOf(pair[1], pair[2], pair[2])
                \cup LineOf(pair[1], pair[2], c)) \ Agreed(pair, c))

\* third party c has an interest in the border of the pair
Interested(pair, c) ==
    \/ Agreed(pair, c) \cap SelfView(c) # {}
    \/ Disputed(pair, c) \cap SelfView(c) # {}

\* third parties c and d select the same area records of both claimants
SameRecords(pair, c, d) ==
    /\ RecordOf(pair[1], c) = RecordOf(pair[1], d)
    /\ RecordOf(pair[2], c) = RecordOf(pair[2], d)

\* the group of third party c: the third parties that select the same records
GroupOf(pair, c) == {d \in ThirdParties(pair) : SameRecords(pair, c, d)}

\* how a line is written in a third-party row
WrittenLine(line) == IF Length(line) = 0 THEN EMPTY_LINE_WKT ELSE dump_wkt(line)

\* a line without the self-view of c, interior and boundary
WithoutSelfView(line, c) ==
    Closure(Closure(line \ SelfView(c)) \ Boundary(SelfView(c)))

\* -------------------------------------------------------------------------
\* C1
\* -------------------------------------------------------------------------

\* C1: for every neighbor pair whose iteration completed, every configured
\* perspective appears in exactly one border row of the pair: the perspective
\* sets of the pair's rows are pairwise disjoint and their union is
\* configs.keys()
C1_Completeness ==
    \A pair \in ProcessedPairs :
        /\ \A c \in Territories :
              Cardinality({i \in PairRows(pair) : c \in PerspectiveSet(borders[i])}) = 1
        /\ \A i \in PairRows(pair) : PerspectiveSet(borders[i]) \subseteq Territories

\* a completed pair one of whose groups splits into an interested and a
\* disinterested member
C1_Witness ==
    \E pair \in ProcessedPairs : \E c, d \in ThirdParties(pair) :
        /\ c # d
        /\ SameRecords(pair, c, d)
        /\ Interested(pair, c)
        /\ ~Interested(pair, d)

\* -------------------------------------------------------------------------
\* C2
\* -------------------------------------------------------------------------

\* C2: the aggregated row of the disinterested members of a group carries the
\* group's unfiltered lines, whether or not the group has interested members
C2_DisinterestedUnfiltered ==
    \A pair \in ProcessedPairs : \A c \in ThirdParties(pair) :
        ~Interested(pair, c) =>
            \A i \in PairRows(pair) :
                c \in PerspectiveSet(borders[i]) =>
                    /\ borders[i].agreed_geometry = WrittenLine(Agreed(pair, c))
                    /\ borders[i].disputed_geometry = WrittenLine(Disputed(pair, c))

\* -------------------------------------------------------------------------
\* C3
\* -------------------------------------------------------------------------

\* C3: the row of an interested member o of a group carries the group's
\* unfiltered lines minus o's own self-view (polygon and boundary), whatever
\* the other interested members and the order they are processed in
C3_OwnSelfViewOnly ==
    \A pair \in ProcessedPairs : \A o \in ThirdParties(pair) :
        Interested(pair, o) =>
            \A i \in PairRows(pair) :
                borders[i].perspectives = <<o>> =>
                    /\ borders[i].agreed_geometry =
                            WrittenLine(WithoutSelfView(Agreed(pair, o), o))
                    /\ borders[i].disputed_geometry =
                            WrittenLine(WithoutSelfView(Disputed(pair, o), o))

\* -------------------------------------------------------------------------
\* C4
\* -------------------------------------------------------------------------

\* the unordered territory pairs that touch under one single perspective
PairsUnderOnePerspective ==
    {<<Min(a, b), Max(a, b)>> : <<a, b>> \in
        {ab \in Territories \X Territories :
            \E p \in Territories : Touches(AreaOf(ab[1], p), AreaOf(ab[2], p))}}

\* the neighbor-pair set is computed and no pair has been iterated yet
NeighborsFound == pc = "borders" /\ borders = <<>>

C5_CanonicalOrdering ==
    /\ \A i \in DOMAIN borders : borders[i].iso3a < borders[i].iso3b
    /\ \A pair \in pairings : pair[1] # pair[2]
    /\ error # "KeyError"

\* -------------------------------------------------------------------------
\* C6
\* -------------------------------------------------------------------------

C7_OwnPerspectivePurity ==
    \A pair \in ProcessedPairs : \A own \in {pair[1], pair[2]} :
        /\ Cardinality({i \in PairRows(pair) : borders[i].perspectives = <<own>>}) = 1
        /\ \A i \in PairRows(pair) :
              own \in PerspectiveSet(borders[i]) =>
                  /\ borders[i].perspectives = <<own>>
                  /\ from_wkt(borders[i].agreed_geometry) = LineOf(pair[1], pair[2], own)
                  /\ borders[i].disputed_geometry = EMPTY_LINE_WKT

\* a completed pair whose two claimants draw different borders
C7_Witness ==
    \E pair \in ProcessedPairs :
        /\ LineOf(pair[1], pair[2], pair[1]) # LineOf(pair[1], pair[2], pair[2])
        /\ Length(LineOf(pair[1], pair[2], pair[1])) > 0
        /\ Length(LineOf(pair[1], pair[2], pair[2])) > 0

\* -------------------------------------------------------------------------
\* C8
\* -------------------------------------------------------------------------

\* C8: neither the agreed nor the disputed geometry of the row written for a
\* single third party o intersects the interior of o's self-view polygon
C8_ThirdPartyExclusion ==
    \A pair \in ProcessedPairs : \A o \in ThirdParties(pair) :
        \A i \in PairRows(pair) :
            borders[i].perspectives = <<o>> =>
                /\ from_wkt(borders[i].agreed_geometry) \cap Interior(SelfView(o)) = {}
                /\ from_wkt(borders[i].disputed_geometry) \cap Interior(SelfView(o)) = {}

\* a completed pair with an interested third party whose self-view interior
\* holds a piece of the unfiltered border, and a row written for that party
C8_Witness ==
    \E pair \in ProcessedPairs : \E o \in ThirdParties(pair) :
        /\ Interested(pair, o)
        /\ (Agreed(pair, o) \cup Disputed(pair, o)) \cap Interior(SelfView(o)) # {}
        /\ \E i \in PairRows(pair) : borders[i].perspectives = <<o>>

\* -------------------------------------------------------------------------
\* C9
\* -------------------------------------------------------------------------

\* the border rows of the run that iterates every set in sorted order
SortedRunRows ==
    UNION {Range(pair_borders(Gdf, pair[1], pair[2],
                              SortedSeq(Territories \ {pair[1], pair[2]})).rows) :
            pair \in iso3_pairings(Gdf)}

\* C9: a completed run on given area rows writes the same border rows (pair,
\* perspective string, agreed and disputed geometry) whatever the order in
\* which the neighbor-pair set and the interested sets were iterated: the rows
\* are those of the run that iterates in sorted order.  (The area rows are a
\* function of the configuration: write_country_areas iterates dictionaries
\* only.)
C9_Determinism ==
    pc = "done" => Range(borders) = SortedRunRows

\* -------------------------------------------------------------------------
\* C10
\* -------------------------------------------------------------------------

\* C10: when resolving a shape fails the run aborts without partial output:
\* the areas table holds no row and the borders table is not produced
C10_NoPartialOutput ==
    (pc = "raised" /\ error = "SourceUnavailable") =>
        /\ areas = <<>>
        /\ BOUNDARIES_NAME \notin files

\* -------------------------------------------------------------------------
\* C11
\* -------------------------------------------------------------------------

\* the territories whose iteration of write_country_areas has completed
CompletedTerritories == {Items[k] : k \in 1..(item - 1)}

\* the first area row of territory t: its neutral row
NeutralRecord(t) ==
    CHOOSE i \in DOMAIN Gdf : Gdf[i].iso3 = t /\ \A j \in DOMAIN Gdf : Gdf[j].iso3 = t => i <= j

\* C11: for every territory T written and every configured perspective C
\* exactly one area record of T has a perspective set containing C, the row
\* labelled C alone or else T's neutral row; hence the two assertions of
\* write_country_boundaries never fail, and once all areas are written every
\* territory has a self-view
C11_AreaRecordInvariant ==
    /\ \A t \in CompletedTerritories : \A c \in Territories :
          /\ Cardinality(rows_of(Gdf, t, c)) = 1
          /\ \A i \in rows_of(Gdf, t, c) :
                Gdf[i].perspective = <<c>> \/ i = NeutralRecord(t)
    /\ error # "AssertionError"
    /\ BOUNDARIES_NAME \in files =>
          /\ DOMAIN self_views(Gdf) = Territories
          /\ \A pair \in iso3_pairings(Gdf) : row_pairings_ok(Gdf, pair[1], pair[2])

\* a completed pair one of whose claimants has a row for a perspective of its
\* own next to its neutral row, both selected by some perspective
C11_Witness ==
    \E pair \in ProcessedPairs : \E c, d \in Territories :
        /\ RecordOf(pair[1], c) # NeutralRecord(pair[1])
        /\ RecordOf(pair[1], d) = NeutralRecord(pair[1])

\* -------------------------------------------------------------------------
\* C12
\* -------------------------------------------------------------------------

\* the territory whose iteration of write_country_areas completed last, with
\* config still its entry of configs
LastWritten == Items[item - 1]

\* the area rows of territory t, in the order written
AreaRowsOf(t) == SelectSeq(areas, LAMBDA row : row.iso3 = t)

\* an iteration of write_country_areas has just completed
AreaWritten == pc \in {"areas", "neighbors"} /\ item > 1

\* C12: the rows written for a territory are one neutral row, labelled with
\* all configured territories except the names of its own perspective
\* recipes, then one row per perspective recipe labelled with its name; with
\* no recipes it is a single row labelled with every configured territory
C12_NeutralPerspectiveSet ==
    AreaWritten =>
        LET rows == AreaRowsOf(LastWritten)
            names == {config.perspectives[j][1] : j \in DOMAIN config.perspectives}
        IN  /\ Len(rows) = 1 + Len(config.perspectives)
            /\ Range(rows[1].perspective) = Territories \ names
            /\ \A j \in DOMAIN config.perspectives :
                  rows[j + 1].perspective = <<config.perspectives[j][1]>>
            /\ config.perspectives = <<>> =>
                  Len(rows) = 1 /\ Range(rows[1].perspective) = Territories

\* a territory with perspective recipes was written after one without
C12_Witness ==
    /\ AreaWritten
    /\ item > 2
    /\ config.perspectives # <<>>
    /\ Len(AreaRowsOf(Items[item - 2])) = 1

\* -------------------------------------------------------------------------
\* C13
\* -------------------------------------------------------------------------

\* the entry of configs now in config has been handed to combine_shapes
BaseComposed == pc \in {"areas", "neighbors", "raised"} /\ config # NoConfig

\* C13: a base recipe whose first operation is not "plus" makes the
\* composition fail with an error before any shape is loaded; it yields no
\* polygon and no area row is written for that territory
C13_RecipeValidation ==
    /\ \A recipe \in Recipes({1, 5}) :
          recipe[1][1] # "plus" =>
              /\ combine_shapes(recipe, -1).status = "AssertionError"
              /\ combine_shapes(recipe, -1).calls = 0
    /\ (BaseComposed /\ config.base[1][1] # "plus") =>
          /\ pc = "raised"
          /\ error = "AssertionError"
          /\ AreaRowsOf(Items[item]) = <<>>

\* the second territory's base recipe starts with "minus" after the first
\* territory was written
C13_Witness ==
    /\ BaseComposed
    /\ config.base[1][1] = "minus"
    /\ item = 2
    /\ areas # <<>>

\* -------------------------------------------------------------------------
\* C14
\* -------------------------------------------------------------------------

\* C14: in every border row written, of every kind, an agreed or disputed
\* geometry of zero length is the literal sentinel LINESTRING EMPTY
C14_EmptyLineSentinel ==
    \A i \in DOMAIN borders :
        /\ Length(from_wkt(borders[i].agreed_geometry)) = 0 =>
              borders[i].agreed_geometry = EMPTY_LINE_WKT
        /\ Length(from_wkt(borders[i].disputed_geometry)) = 0 =>
              borders[i].disputed_geometry = EMPTY_LINE_WKT

\* -------------------------------------------------------------------------
\* C15
\* -------------------------------------------------------------------------

\* for every third-party group of a pair, the three lines the loop over
\* other_lines combines and the two lines it computes from them, before any
\* self-view is subtracted
GroupLines(pair) ==
    LET pairs  == row_pairings(Gdf, pair[1], pair[2])
        groups == third_party_groups(Gdf, pair[1], pair[2])
        line1  == pairing_line(Gdf, pop_party(pairs, pair[1], pair[1]))
        line2  == pairing_line(Gdf, pop_party(pairs, pair[1], pair[2]))
    IN  {[line1 |-> line1, line2 |-> line2,
          lineG |-> pairing_line(Gdf, groups[k].pairing),
          agreed |-> agreed_line(line1, line2, pairing_line(Gdf, groups[k].pairing)),
          disputed |-> disputed_line(line1, line2, pairing_line(Gdf, groups[k].pairing))] :
            k \in DOMAIN groups}

\* agreed is the common part of the three lines, agreed and disputed cover
\* them, a point only one claimant draws is disputed, and three equal lines
\* leave nothing disputed
CoversLines(gl) ==
    /\ gl.agreed = gl.line1 \cap gl.line2 \cap gl.lineG
    /\ gl.agreed \cup gl.disputed = gl.line1 \cup gl.line2 \cup gl.lineG
    /\ (gl.line1 \cup gl.line2 \cup gl.lineG) \ gl.agreed \subseteq gl.disputed
    /\ (gl.line1 \ gl.line2) \cup (gl.line2 \ gl.line1) \subseteq gl.disputed \ gl.agreed
    /\ (gl.line1 = gl.line2 /\ gl.line2 = gl.lineG) => gl.disputed = {}

\* C15: for every third-party group of a completed pair, agreed is the part
\* common to line_A, line_B and line_G, disputed the rest of their union, the
\* two are disjoint and together cover the three lines
C15_AgreedDisputedPartition ==
    \A pair \in ProcessedPairs : \A gl \in GroupLines(pair) :
        /\ CoversLines(gl)
        /\ gl.agreed \cap gl.disputed = {}

\* C15 without disjointness: disputed is the closed rest of the union, so a
\* point common to agreed and disputed is a limit point of the rest (the end
\* of a disputed line, the edge of a disputed polygon)
C15_AgreedDisputedCover ==
    \A pair \in ProcessedPairs : \A gl \in GroupLines(pair) :
        /\ CoversLines(gl)
        /\ \A f \in gl.agreed \cap gl.disputed :
              \E g \in (gl.line1 \cup gl.line2 \cup gl.lineG) \ gl.agreed : f \in FaceClosure(g)

\* a group whose agreed and disputed lines are both there and meet, with a
\* stretch drawn by one claimant only
C15_Witness ==
    \E pair \in ProcessedPairs : \E gl \in GroupLines(pair) :
        /\ gl.agreed \cap gl.disputed # {}
        /\ gl.line1 # gl.line2

\* -------------------------------------------------------------------------
\* Vocabulary of the webhook properties
\* -------------------------------------------------------------------------

\* the names of the calls made to one API, in order
CallsTo(api) == SelectSeq(calls, LAMBDA c : c.api = api)

\* the names of the executions started for pull request n by earlier requests
ExecutionsOfPR(n) == {EXECUTION_NAME_PAT(str(n), id) : id \in EarlierRequestIds}

\* the executions the listing returned that belong to pull request n
ListedForPR(n) ==
    {running_executions[i].name : i \in DOMAIN running_executions} \cap ExecutionsOfPR(n)

\* stop_existing_executions_for_pr has returned
StopsDone == hpc \in {"start", "status", "returned"} /\ CallsTo("list_executions") # <<>>

\* -------------------------------------------------------------------------
\* C16
\* -------------------------------------------------------------------------

\* C16: handling a webhook for pull request n requests a stop, once, for every
\* execution listed as RUNNING that belongs to n and for no other execution
\* (not for those of a pull request whose number starts with the digits of
\* n); stop_existing_executions_for_pr returns the number of stop requests
\* that succeeded
C16_SupersedingExecutions ==
    LET stops == CallsTo("stop_execution")
    IN  /\ \A i \in DOMAIN stops : stops[i].name \in ListedForPR(body.number)
        /\ \A i, j \in DOMAIN stops : stops[i].name = stops[j].name => i = j
        /\ StopsDone =>
              /\ {stops[i].name : i \in DOMAIN stops} = ListedForPR(body.number)
              /\ stopped_count = Len(SelectSeq(stops, LAMBDA c : c.ok))

\* the listing held an execution of pull request 1 and one of pull request
\* 12, the webhook was for 1, and a stop was requested
C16_Witness ==
    /\ StopsDone
    /\ body.number = 1
    /\ ListedForPR(1) # {}
    /\ ListedForPR(12) # {}
    /\ CallsTo("stop_execution") # <<>>

\* -------------------------------------------------------------------------
\* C17
\* -------------------------------------------------------------------------

\* C17: for every request with STATE_MACHINE_ARN set and a body that parses,
\* start_execution is called exactly once by the time the handler returns,
\* after the listing and every stop request, whether or not they failed; for
\* a payload without a pull request number nothing is listed or stopped and
\* the execution is still started
C17_StartExactlyOnce ==
    (state_machine_arn /\ body.kind \in {"object", "nonobject"}) =>
        /\ Len(CallsTo("start_execution")) <= 1
        /\ hpc = "returned" => Len(CallsTo("start_execution")) = 1
        /\ \A i, j \in DOMAIN calls :
              (calls[i].api = "start_execution"
                  /\ calls[j].api \in {"list_executions", "stop_execution"}) => j < i
        /\ ~body.has_number =>
              CallsTo("list_executions") = <<>> /\ CallsTo("stop_execution") = <<>>

\* -------------------------------------------------------------------------
\* C18
\* -------------------------------------------------------------------------

\* C18: a request with STATE_MACHINE_ARN unset returns statusCode 500, and a
\* request whose body is not valid JSON (the ARN being set: the handler looks
\* at the environment first) returns statusCode 400; in both cases nothing is
\* listed, stopped or started and no GitHub status is posted
C18_InputErrors ==
    (~state_machine_arn \/ body.kind = "invalid") =>
        /\ calls = <<>>
        /\ hpc \in {"invoked", "returned"}
        /\ hpc = "returned" =>
              response.statusCode = IF ~state_machine_arn THEN 500 ELSE 400

\* the handler has returned 400 for a body that is not JSON while an
\* execution of the state machine was running
C18_Witness ==
    /\ hpc = "returned"
    /\ state_machine_arn
    /\ body.kind = "invalid"
    /\ response.statusCode = 400
    /\ list_executions(executions) # <<>>

\* -------------------------------------------------------------------------
\* C19
\* -------------------------------------------------------------------------

\* C19: when start_execution fails the handler returns statusCode 500 with
\* the error "Failed to start execution" and posts no pending status; a
\* pending status is posted only after start_execution has succeeded
C19_StartFailure ==
    /\ \A i \in DOMAIN calls :
          calls[i].api = "statuses" =>
              \E j \in 1..(i - 1) : calls[j].api = "start_execution" /\ calls[j].ok
    /\ (\E i \in DOMAIN calls : calls[i].api = "start_execution" /\ ~calls[i].ok) =>
          /\ hpc = "returned"
          /\ response = Response(500, "Failed to start execution")
          /\ CallsTo("statuses") = <<>>

\* start_execution failed after an execution of the same pull request had
\* been stopped
C19_Witness ==
    /\ hpc = "returned"
    /\ \E i \in DOMAIN calls : calls[i].api = "start_execution" /\ ~calls[i].ok
    /\ \E i \in DOMAIN calls : calls[i].api = "stop_execution" /\ calls[i].ok

\* -------------------------------------------------------------------------
\* C20
\* -------------------------------------------------------------------------

\* the handler invocation is over: it returned or an exception left it
ProcEnded == ppc \in {"returned", "raised"}

\* C20: an invocation whose event carries a taskToken ends with exactly one
\* Step Functions callback, send_task_success when every step succeeded and
\* send_task_failure when a step failed; without a taskToken no callback is
\* made
C20_ExactlyOneCallback ==
    /\ Len(callbacks) <= 1
    /\ ~event.taskToken => callbacks = <<>>
    /\ (ProcEnded /\ event.taskToken) =>
          /\ Len(callbacks) = 1
          /\ callbacks[1].api = "send_task_success" <=> returned.status = "success"

\* -------------------------------------------------------------------------
\* The task handler: invocation, index.html, input errors
\* -------------------------------------------------------------------------

TaskEnded == tpc = "returned"
TaskInputsComplete == processor_arn /\ "taskToken" \in DOMAIN task_event
InvocationSucceeded ==
    invocations # <<>> /\ invocations[Len(invocations)].outcome = "ok"
InvocationFailed ==
    invocations # <<>> /\ invocations[Len(invocations)].outcome = "Exception"
FirstTaskWithDestination ==
    /\ "taskSequence" \in DOMAIN task_event
    /\ task_event["taskSequence"] = "first"
    /\ "destination" \in DOMAIN task_event

C22_IndexHtmlFirstTaskOnly ==
    TaskEnded =>
        /\ Len(index_writes) <= 1
        /\ Len(index_writes) = 1 <=> (FirstTaskWithDestination /\ InvocationSucceeded)
        /\ InvocationFailed => task_response.statusCode = 500
        /\ \A i \in 1..Len(index_writes) :
              /\ index_writes[i].key = "index.html"
              /\ task_response.statusCode = 200

\* the write of index.html failed and the handler returned 200
C22_Witness ==
    /\ TaskEnded
    /\ Len(index_writes) = 1
    /\ index_writes[1].outcome = "Exception"
    /\ task_response.statusCode = 200

\* C23: the handler returns 500 when PROCESSOR_FUNCTION_ARN is unset, and
\* 400 when it is set and the event has no taskToken; in both cases there was
\* no invoke call and no write of index.html.
C23_TaskInputErrors ==
    TaskEnded =>
        /\ ~processor_arn =>
              /\ task_response.statusCode = 500
              /\ invocations = <<>> /\ index_writes = <<>>
        /\ (processor_arn /\ "taskToken" \notin DOMAIN task_event) =>
              /\ task_response.statusCode = 400
              /\ invocations = <<>> /\ index_writes = <<>>

\* the first task of an event without a taskToken was refused
C23_Witness ==
    /\ TaskEnded
    /\ processor_arn
    /\ "taskToken" \notin DOMAIN task_event
    /\ FirstTaskWithDestination
    /\ task_response.statusCode = 400

\* -------------------------------------------------------------------------
\* The finish handler: the posted status, the error paths
\* -------------------------------------------------------------------------

FinishEnded == fpc \in {"returned", "raised"}
FinishCallsTo(api) == {i \in 1..Len(requests) : requests[i].api = api}
TokenRetrieved ==
    \E i \in FinishCallsTo("get_secret_value") : requests[i].outcome = "ok"
NoStatusesUrl == finish_event.repository # "url"
NoHeadSha == finish_event.pull_request # "sha"

\* C24: when the handler has returned after retrieving the token, it has
\* made exactly one POST, to the statuses url of the head sha, with context
\* "boundary-issues-processor"; the posted state is the status of the event,
\* "failure" when the event has none, so it is "success" exactly when the
\* event's status is "success", and the description says "passed" exactly then.
C24_PostedStatus ==
    (fpc = "returned" /\ TokenRetrieved) =>
        /\ Cardinality(FinishCallsTo("POST")) = 1
        /\ \A i \in FinishCallsTo("POST") :
              /\ requests[i].url = <<STATUSES_URL[1], HEAD_SHA>>
              /\ requests[i].payload.context = "boundary-issues-processor"
              /\ finish_event.status # "missing" =>
                    requests[i].payload.state = finish_event.status
              /\ finish_event.status = "missing" =>
                    requests[i].payload.state = "failure"
              /\ requests[i].payload.state = "success" <=>
                    finish_event.status = "success"
              /\ requests[i].payload.description = "Boundary issues check passed" <=>
                    finish_event.status = "success"

\* a status was posted for an event without a status
C24_Witness ==
    /\ fpc = "returned"
    /\ TokenRetrieved
    /\ finish_event.status = "missing"
    /\ finish_response.statusCode = 200
    /\ Cardinality(FinishCallsTo("POST")) = 1

\* C25: the handler never raises, and when it has ended: with
\* GITHUB_SECRET_ARN unset it returned 500 and, with it set, 400 without
\* repository.statuses_url or without pull_request.head.sha, each without any
\* call to Secrets Manager or GitHub; after a Secrets Manager failure it
\* returned 500 without a GitHub request; after a failed GitHub request it
\* returned 500.
C25_FinishErrorPaths ==
    /\ fpc # "raised"
    /\ FinishEnded =>
        /\ ~github_secret_arn =>
              finish_response.statusCode = 500 /\ requests = <<>>
        /\ (github_secret_arn /\ (NoStatusesUrl \/ NoHeadSha)) =>
              finish_response.statusCode = 400 /\ requests = <<>>
        /\ \A i \in FinishCallsTo("get_secret_value") :
              requests[i].outcome # "ok" =>
                  /\ finish_response.statusCode = 500
                  /\ FinishCallsTo("POST") = {}
        /\ \A i \in FinishCallsTo("POST") :
              requests[i].outcome # "ok" => finish_response.statusCode = 500

\* -------------------------------------------------------------------------
\* Shape composition
\* -------------------------------------------------------------------------

RECURSIVE LeftFold(_, _, _)
\* the left fold of a recipe of "plus" and "minus" entries from entry i on
LeftFold(recipe, i, acc) ==
    IF i > Len(recipe) THEN acc
    ELSE LeftFold(recipe, i + 1,
            IF recipe[i][1] = "plus"
            THEN GeomUnion(acc, Closure(OsmCells(recipe[i][3])))
            ELSE GeomDifference(acc, Closure(OsmCells(recipe[i][3]))))

\* C26: the rows written for a territory hold, first, the left fold of its
\* base recipe from the empty polygon ("plus" unions, "minus" subtracts, in
\* recipe order), whatever its perspective recipes are, and then for each
\* perspective recipe the same fold over the base recipe followed by that
\* recipe
C26_LeftFoldComposition ==
    AreaWritten =>
        LET rows == AreaRowsOf(LastWritten)
        IN  /\ Len(rows) = 1 + Len(config.perspectives)
            /\ rows[1].geometry.coords = LeftFold(config.base, 1, EmptyGeom)
            /\ \A j \in DOMAIN config.perspectives :
                  rows[j + 1].geometry.coords =
                      LeftFold(config.base \o config.perspectives[j][2], 1, EmptyGeom)

\* a base recipe with a "minus" and a perspective recipe that takes more away
C26_Witness ==
    /\ AreaWritten
    /\ Len(config.base) = 2
    /\ config.base[2][1] = "minus"
    /\ Len(config.perspectives) = 1
    /\ config.perspectives[1][2][1][1] = "minus"
    /\ Len(AreaRowsOf(LastWritten)) = 2
    /\ AreaRowsOf(LastWritten)[1].geometry.coords # EmptyGeom
    /\ AreaRowsOf(LastWritten)[2].geometry # AreaRowsOf(LastWritten)[1].geometry

\* the entries of a recipe with a direction other than "plus" and "minus"
BadEntries(recipe) == {k \in DOMAIN recipe : recipe[k][1] \notin {"plus", "minus"}}

\* the perspective recipes of config with such an entry
BadPerspectives == {j \in DOMAIN config.perspectives : BadEntries(config.perspectives[j][2]) # {}}

\* C27: an entry with a direction other than "plus" and "minus", anywhere
\* in the base recipe or in a perspective recipe of a territory, ends the run
\* with an exception in that territory's iteration: no later territory is
\* reached, no row is written for the polygon the entry belongs to (none at
\* all when it is in the base recipe), and the exception is the ValueError of
\* that entry (the AssertionError of the base recipe's first entry when that
\* is not "plus") unless loading a shape failed before
C27_UnknownOperatorAborts ==
    (BaseComposed /\ (BadEntries(config.base) # {} \/ BadPerspectives # {})) =>
        /\ pc = "raised"
        /\ error \in {"AssertionError", "ValueError", "SourceUnavailable"}
        /\ \A i \in DOMAIN areas : areas[i].iso3 \in {Items[k] : k \in 1..item}
        /\ BadEntries(config.base) # {} => AreaRowsOf(Items[item]) = <<>>
        /\ \A j \in BadPerspectives :
              /\ Len(AreaRowsOf(Items[item])) <= j
              /\ \A i \in DOMAIN areas :
                    areas[i].iso3 = Items[item] =>
                        areas[i].perspective # <<config.perspectives[j][1]>>
        /\ error # "SourceUnavailable" =>
              IF config.base[1][1] # "plus" THEN error = "AssertionError"
              ELSE IF BadEntries(config.base) # {} THEN error = "ValueError"
              ELSE /\ error = "ValueError"
                   /\ \E j \in BadPerspectives :
                         /\ \A k \in 1..(j - 1) : k \notin BadPerspectives
                         /\ Len(AreaRowsOf(Items[item])) = j

\* the perspective recipe of the second territory has such an entry: its
\* neutral row is written, its perspective row is not
C27_Witness ==
    /\ BaseComposed
    /\ item = 2
    /\ BadEntries(config.base) = {}
    /\ BadPerspectives # {}
    /\ error = "ValueError"
    /\ Len(AreaRowsOf(Items[1])) >= 1
    /\ Len(AreaRowsOf(Items[2])) = 1

\* -------------------------------------------------------------------------
\* Interest partition
\* -------------------------------------------------------------------------

\* the disinterested members of the group of third party c
DisinterestedOf(pair, c) == {d \in GroupOf(pair, c) : ~Interested(pair, d)}

\* the border rows of a pair that name third party c
RowsNaming(pair, c) == {i \in PairRows(pair) : c \in PerspectiveSet(borders[i])}

\* C28: for every completed pair and every third party o, with interest
\* meaning that o's self-view intersects the agreed or the disputed line of
\* o's group: an interested o is named in exactly one row, a row of its own;
\* a disinterested o is named in exactly one row, which names exactly the
\* disinterested members of its group; and every third-party row is of one of
\* these two kinds, so a group without disinterested members has no
\* aggregated row
C28_InterestPartition ==
    \A pair \in ProcessedPairs :
        /\ \A o \in ThirdParties(pair) :
              /\ Cardinality(RowsNaming(pair, o)) = 1
              /\ \A i \in RowsNaming(pair, o) :
                    PerspectiveSet(borders[i]) =
                        IF Interested(pair, o) THEN {o} ELSE DisinterestedOf(pair, o)
        /\ \A i \in PairRows(pair) :
              \/ PerspectiveSet(borders[i]) \in {{pair[1]}, {pair[2]}}
              \/ \E o \in ThirdParties(pair) : o \in PerspectiveSet(borders[i])
        /\ Cardinality(PairRows(pair)) =
              2 + Cardinality({o \in ThirdParties(pair) : Interested(pair, o)})
                + Cardinality({DisinterestedOf(pair, o) : o \in ThirdParties(pair)} \ {{}})

\* a completed pair with a group of an interested and a disinterested member
\* whose agreed line alone meets the interested member's self-view, and a
\* completed pair with a group without disinterested members
C28_Witness ==
    /\ \E pair \in ProcessedPairs : \E o \in ThirdParties(pair) :
          DisinterestedOf(pair, o) = {}
    /\ \E pair \in ProcessedPairs : \E c, d \in ThirdParties(pair) :
        /\ c # d
        /\ SameRecords(pair, c, d)
        /\ Interested(pair, c)
        /\ Disputed(pair, c) \cap SelfView(c) = {}
        /\ ~Interested(pair, d)
        /\ \E i \in PairRows(pair) : borders[i].perspectives = <<c>>
        /\ \E i \in PairRows(pair) : borders[i].perspectives = <<d>>

\* -------------------------------------------------------------------------
\* The local source files
\* -------------------------------------------------------------------------

\* how many times element osm_id was downloaded
TimesDownloaded(osm_id) == Cardinality({i \in DOMAIN downloads : downloads[i] = osm_id})

\* the elements the recipes of config refer to
ReferencedBy(cfg) ==
    {cfg.base[k][3] : k \in DOMAIN cfg.base}
        \cup UNION {{cfg.perspectives[j][2][k][3] : k \in DOMAIN cfg.perspectives[j][2]} :
                        j \in DOMAIN cfg.perspectives}

\* C29: in one run no element is downloaded twice, every element downloaded
\* has a local source file, and once the recipes of a territory are composed
\* every element they refer to has a local file and was downloaded exactly
\* once, however many recipes refer to it
C29_DownloadAtMostOnce ==
    /\ \A osm_id \in Range(downloads) : TimesDownloaded(osm_id) = 1
    /\ Range(downloads) \subseteq sources
    /\ AreaWritten =>
          \A osm_id \in ReferencedBy(config) :
              osm_id \in sources /\ TimesDownloaded(osm_id) = 1

\* two perspective recipes of one territory, written after another territory,
\* refer to the same relation, downloaded once
C29_Witness ==
    /\ AreaWritten
    /\ item > 2
    /\ Len(config.perspectives) = 2
    /\ config.perspectives[1][2][1][3] = config.perspectives[2][2][1][3]
    /\ TimesDownloaded(config.perspectives[1][2][1][3]) = 1
    /\ Len(AreaRowsOf(LastWritten)) = 3

\* -------------------------------------------------------------------------
\* The order of the processor's steps
\* -------------------------------------------------------------------------

\* the steps of the processor handler in the order of the claim, then the
\* success response
StepOrder == <<"token", "parse", "clone", "checkout", "diff", "run", "upload", "success">>

\* the step that follows step s
StepAfter(s) ==
    LET k == CHOOSE i \in DOMAIN StepOrder : StepOrder[i] = s
    IN  IF k < Len(StepOrder) THEN StepOrder[k + 1] ELSE "returned"

\* C30: every move of the handler either goes from a step to the next one
\* of the fixed order token, parse, clone, checkout, diff, run, upload without
\* a response, or returns at once: an error response when it leaves one of the
\* seven steps, the success response after the upload; so no step is executed
\* after a failed one
C30_FixedStepOrder ==
    [][ppc' # ppc =>
          \/ /\ ppc' = StepAfter(ppc)
             /\ ppc' # "returned"
             /\ returned' = returned
          \/ /\ ppc' = "returned"
             /\ returned'.status = (IF ppc = "success" THEN "success" ELSE "error")]_vars

\* -------------------------------------------------------------------------
\* The verification of the checkout
\* -------------------------------------------------------------------------

\* the handler reported success: in its response or to Step Functions
SuccessReported ==
    \/ returned.statusCode = 200
    \/ \E i \in DOMAIN callbacks : callbacks[i].api = "send_task_success"

\* the checkout left HEAD at another commit than the head of the pull request
CheckoutMismatch == current_sha \notin {"", pr_sha}

\* C31: the handler reports success (statusCode 200 or send_task_success)
\* only when git rev-parse HEAD after the checkout printed the head sha of
\* the pull request; when it printed another commit the handler has returned
\* a 500 error response, with a task token its one callback is
\* send_task_failure with CheckoutVerificationError, and the build script was
\* not run; the script is run only on a verified checkout
C31_VerifiedCheckout ==
    /\ SuccessReported => (event.head_sha /\ current_sha = pr_sha)
    /\ script_ran => current_sha = pr_sha
    /\ CheckoutMismatch =>
          /\ ppc = "returned"
          /\ returned = [statusCode |-> 500, status |-> "error"]
          /\ ~script_ran
          /\ callbacks = IF event.taskToken
                         THEN <<[api |-> "send_task_failure",
                                 error |-> "CheckoutVerificationError"]>>
                         ELSE <<>>

\* HEAD was at another commit after the checkout of an event with a task
\* token, and the failure was reported
C31_Witness ==
    /\ CheckoutMismatch
    /\ event.taskToken
    /\ ppc = "returned"
    /\ returned.statusCode = 500
    /\ Len(callbacks) = 1
====
